---- MODULE Spec2Model ----
(***************************************************************************)
(* Model of the datasheet analyzer: the SQLite store of database.py        *)
(* (DatasheetDatabase) and the watch / schedule / analysis state machine   *)
(* of main.py (DataAnalyzerTab).                                           *)
(*                                                                         *)
(* Python None and SQL NULL are the string NULL.  Record ids are positive  *)
(* integers; NoId (0) is "no id" (an unassigned local).                    *)
(***************************************************************************)
EXTENDS Integers, Sequences, FiniteSets, TLC

(***************************************************************************)
(* Bounds of the model.                                                    *)
(***************************************************************************)
\* analysis runs (worker threads) ever started
MaxRuns == 2
\* checklist strings parsed by all the runs together
MaxItems == 2
\* DataSheetInfo objects ever constructed
MaxDescriptors == 2
\* records the store-level specification inserts
MaxRecords == 2
\* checklist rows the store-level specification inserts
MaxCheckpoints == 1

NULL == "NULL"
NoId == 0

Filenames == {"a.pdf", "b.png"}
Runs == 1 .. MaxRuns

(***************************************************************************)
(* Values of a metadata dictionary: a Python str, or a list of str.        *)
(* A dictionary is a set of [key, value] entries with distinct keys.       *)
(***************************************************************************)
StrVal(s) == [kind |-> "str", v |-> s]
ListVal(q) == [kind |-> "list", v |-> q]

RECURSIVE JsonItems(_)
JsonItems(q) ==
    IF q = << >> THEN ""
    ELSE "\"" \o Head(q) \o "\""
         \o (IF Len(q) > 1 THEN ", " ELSE "") \o JsonItems(Tail(q))

\* json.dumps of a list of strings
JsonDumps(q) == "[" \o JsonItems(q) \o "]"

\* the text written to analysis_metadata.value:
\* json.dumps(value) if isinstance(value, (dict, list)) else str(value)
Serialize(val) == IF val.kind = "list" THEN JsonDumps(val.v) ELSE val.v

(***************************************************************************)
(* The store.  seq_analysis is the AUTOINCREMENT counter of                *)
(* datasheet_analysis (sqlite_sequence): an id is never handed out twice.  *)
(* clock is CURRENT_TIMESTAMP at the last record insert, in whole seconds. *)
(* A checkpoint row carries its rank n among the rows of its record (the   *)
(* order of its rowid); the rowids of checkpoint and metadata rows and     *)
(* checkpoint.created_at are read only by the views and are left out.      *)
(***************************************************************************)
EmptyDB ==
    [analysis |-> {}, metadata |-> {}, checkpoint |-> {},
     seq_analysis |-> 0, clock |-> 0]

\* sqlite3.connect() without "PRAGMA foreign_keys = ON": SQLite leaves
\* foreign-key enforcement (and so ON DELETE CASCADE) switched off.
ForeignKeysEnabled == FALSE

\* UNIQUE(filename, file_hash): SQL NULLs are distinct from one another,
\* so a row with a NULL file_hash never collides.
UniqueViolated(d, filename, file_hash) ==
    /\ file_hash # NULL
    /\ \E r \in d.analysis : r.filename = filename /\ r.file_hash = file_hash

\* NOT NULL columns of datasheet_analysis and analysis_metadata
NotNullViolated(filename, analysis_result, meta) ==
    \/ filename = NULL
    \/ analysis_result = NULL
    \/ \E e \in meta : e.key = NULL

MetadataRows(id, meta) ==
    { [datasheet_id |-> id, key |-> e.key, value |-> Serialize(e.value)] : e \in meta }

\* an id column without AUTOINCREMENT: the new id is one more than the
\* largest stored id, so the id of a deleted last row is handed out again
InsertAnalysisMutRowid(d, filename, analysis_result, vendor_code, file_hash, meta, secs, fault) ==
    LET stored == { r.id : r \in d.analysis }
        id == IF stored = {} THEN 1
              ELSE 1 + CHOOSE m \in stored : \A o \in stored : o <= m
        now == d.clock + secs
        row == [id |-> id, filename |-> filename, vendor_code |-> vendor_code,
                analysis_result |-> analysis_result, file_hash |-> file_hash,
                created_at |-> now]
    IN  IF fault # "none"
        THEN [db |-> d, raised |-> "OperationalError", id |-> NoId]
        ELSE IF \/ NotNullViolated(filename, analysis_result, meta)
                \/ UniqueViolated(d, filename, file_hash)
        THEN [db |-> d, raised |-> "ValueError", id |-> NoId]
        ELSE [db |-> [d EXCEPT !.analysis = @ \cup {row},
                               !.metadata = @ \cup MetadataRows(id, meta),
                               !.seq_analysis = id,
                               !.clock = now],
              raised |-> "none", id |-> id]

\* insert_analysis.  secs (0 or 1) is the whole seconds elapsed since the
\* last insert; fault is a store failure that is no constraint violation
\* ("io": sqlite3.OperationalError, which insert_analysis lets through).
\* The result is the new store, the exception raised and the id returned.
InsertAnalysis(d, filename, analysis_result, vendor_code, file_hash, meta, secs, fault) ==
    LET id == d.seq_analysis + 1
        now == d.clock + secs
        row == [id |-> id, filename |-> filename, vendor_code |-> vendor_code,
                analysis_result |-> analysis_result, file_hash |-> file_hash,
                created_at |-> now]
    IN  IF fault # "none"
        THEN [db |-> d, raised |-> "OperationalError", id |-> NoId]
        ELSE IF \/ NotNullViolated(filename, analysis_result, meta)
                \/ UniqueViolated(d, filename, file_hash)
        THEN \* sqlite3.IntegrityError: rollback, ValueError
             [db |-> d, raised |-> "ValueError", id |-> NoId]
        ELSE [db |-> [d EXCEPT !.analysis = @ \cup {row},
                               !.metadata = @ \cup MetadataRows(id, meta),
                               !.seq_analysis = id,
                               !.clock = now],
              raised |-> "none", id |-> id]

\* delete_analysis: DELETE FROM datasheet_analysis WHERE id = ?
DeleteAnalysis(d, id) ==
    IF ForeignKeysEnabled
    THEN [d EXCEPT !.analysis = { r \in @ : r.id # id },
                   !.metadata = { m \in @ : m.datasheet_id # id },
                   !.checkpoint = { c \in @ : c.datasheet_id # id }]
    ELSE [d EXCEPT !.analysis = { r \in @ : r.id # id }]

\* the rows get_checkpoints_by_datasheet(datasheet_id) reads
CheckpointsOf(d, id) == { c \in d.checkpoint : c.datasheet_id = id }

\* insert_checkpoint: sqlite3 errors are not caught, only the connection
\* is closed.
InsertCheckpoint(d, datasheet_id, text, python_code, fault) ==
    LET row == [n |-> Cardinality(CheckpointsOf(d, datasheet_id)) + 1,
                datasheet_id |-> datasheet_id, text |-> text,
                python_code |-> python_code]
    IN  IF fault # "none"
        THEN [db |-> d, raised |-> "OperationalError"]
        ELSE IF \/ text = NULL \/ python_code = NULL
                \/ (ForeignKeysEnabled /\ \A r \in d.analysis : r.id # datasheet_id)
        THEN [db |-> d, raised |-> "IntegrityError"]
        ELSE [db |-> [d EXCEPT !.checkpoint = @ \cup {row}], raised |-> "none"]

\* get_analysis_by_filename: ORDER BY created_at DESC LIMIT 1.  The rows
\* the query may return: every row of the filename with the latest
\* created_at (rows inserted within one second tie); {} is None.
GetAnalysisByFilename(d, filename) ==
    { r \in d.analysis :
        /\ r.filename = filename
        /\ \A o \in d.analysis : o.filename = filename => o.created_at <= r.created_at }

\* the rows get_metadata(datasheet_id) reads
MetadataOf(d, id) == { m \in d.metadata : m.datasheet_id = id }

\* json.loads(value) in get_metadata: the text of a JSON array is read as
\* the list, the text of a JSON number as the number, and on
\* json.JSONDecodeError the text is kept as it is
JsonLists == { << >>, << "EN" >>, << "EN", "FB" >> }
IntVal(n) == [kind |-> "int", v |-> n]
JsonDecode(text) ==
    IF \E q \in JsonLists : JsonDumps(q) = text
    THEN ListVal(CHOOSE q \in JsonLists : JsonDumps(q) = text)
    ELSE IF text = "5" THEN IntVal(5)
    ELSE StrVal(text)

\* a variant of update_analysis that writes every column, given or not
UpdateAnalysisMutAll(d, analysis_id, analysis_result, vendor_code, meta, fault) ==
    LET keys == { e.key : e \in meta }
    IN  IF fault # "none"
        THEN [db |-> d, raised |-> "OperationalError"]
        ELSE [db |-> [d EXCEPT
                        !.analysis =
                          { IF r.id = analysis_id
                            THEN [r EXCEPT !.analysis_result = analysis_result,
                                           !.vendor_code = vendor_code]
                            ELSE r : r \in @ },
                        !.metadata =
                          { m \in @ : ~(m.datasheet_id = analysis_id /\ m.key \in keys) }
                            \cup MetadataRows(analysis_id, meta)],
              raised |-> "none"]

\* update_analysis: UPDATE ... SET the columns given (not None) and
\* updated_at WHERE id = ?, then INSERT OR REPLACE of every metadata entry,
\* which UNIQUE(datasheet_id, key) turns into the replacement of the row of
\* that key.  updated_at is read by no query of the store and is left out.
\* sqlite3 errors are not caught: nothing is committed.
UpdateAnalysis(d, analysis_id, analysis_result, vendor_code, meta, fault) ==
    LET keys == { e.key : e \in meta }
    IN  IF fault # "none"
        THEN [db |-> d, raised |-> "OperationalError"]
        ELSE [db |-> [d EXCEPT
                        !.analysis =
                          { IF r.id = analysis_id
                            THEN [r EXCEPT !.analysis_result =
                                             IF analysis_result # NULL
                                             THEN analysis_result ELSE @,
                                           !.vendor_code =
                                             IF vendor_code # NULL THEN vendor_code ELSE @]
                            ELSE r : r \in @ },
                        !.metadata =
                          { m \in @ : ~(m.datasheet_id = analysis_id /\ m.key \in keys) }
                            \cup MetadataRows(analysis_id, meta)],
              raised |-> "none"]

\* get_metadata(datasheet_id): the dictionary of the decoded values
GetMetadata(d, id) ==
    { [key |-> m.key, value |-> JsonDecode(m.value)] : m \in MetadataOf(d, id) }

(***************************************************************************)
(* The analyzer tab.                                                       *)
(*   datasheets     self.datasheets: the list of DataSheetInfo objects,    *)
(*                  by object identity                                     *)
(*   info           the fields of each live DataSheetInfo object           *)
(*   run            each worker thread running analyze_datasheet: its      *)
(*                  position and its locals                                *)
(*   checkpoint_py  the content of <tempdir>/ldrc/checkpoint.py (NULL: the *)
(*                  file does not exist)                                   *)
(*   db             the store                                              *)
(*   ret            the last call made on the store through its API and    *)
(*                  what it raised and returned                            *)
(*   parsed         how many checklist strings the runs have parsed so far *)
(*   constructed    how many DataSheetInfo objects have been constructed   *)
(*                  (both bound the model, the program keeps no such       *)
(*                  counts)                                                *)
(***************************************************************************)
VARIABLES datasheets, info, run, checkpoint_py, db, ret, parsed, constructed

vars == << datasheets, info, run, checkpoint_py, db, ret, parsed, constructed >>

\* the identities of the DataSheetInfo objects, in order of construction
ObjIds == 1 .. MaxDescriptors
NoObj == 0
NoInfo == [filename |-> NULL, status |-> NULL]

\* DataSheetInfo.__init__: a new descriptor is Ready
NewInfo(filename) == [filename |-> filename, status |-> "Ready"]

\* the locals of analyze_datasheet before the thread exists.  outcome is
\* the branch the persist step took ("saved", "duplicate": except
\* ValueError, "error": except Exception); dropped counts the items whose
\* second insert ended in the bare "except: pass".
IdleRun ==
    [pc |-> "unborn", d |-> NoObj, vendor_code |-> NULL, analysis_result |-> NULL,
     tags_json |-> NULL, metadata |-> {}, checkpoints_json |-> NULL,
     checkpoints_list |-> << >>,
     datasheet_id |-> NoId,
     idx |-> 0, python_code |-> NULL, outcome |-> "none", dropped |-> 0]

NoCall == [op |-> "none", filename |-> NULL, analysis_result |-> NULL,
           vendor_code |-> NULL, file_hash |-> NULL, metadata |-> {}, id |-> NoId,
           raised |-> "none",
           src |-> [folder |-> NULL, name |-> NULL],
           dest |-> [folder |-> NULL, name |-> NULL], refreshed_on |-> "none",
           listing |-> << >>]

Init ==
    /\ datasheets = << >>
    /\ info = [o \in ObjIds |-> NoInfo]
    /\ run = [r \in Runs |-> IdleRun]
    /\ checkpoint_py = NULL
    /\ db = EmptyDB
    /\ ret = NoCall
    /\ parsed = 0
    /\ constructed = 0

InList(q, o) == \E i \in 1 .. Len(q) : q[i] = o

\* an object is live while the list or a thread's argument refers to it
Live(q, rn, o) == InList(q, o) \/ \E r \in Runs : rn[r].d = o

\* the heap after the unreferenced objects are gone
Heap(q, rn, inf) == [o \in ObjIds |-> IF Live(q, rn, o) THEN inf[o] ELSE NoInfo]

(***************************************************************************)
(* on_analysis_timer: one thread per descriptor that is Ready.  The        *)
(* thread's first statement (status = PROCESSING) runs later, in the       *)
(* thread.                                                                 *)
(***************************************************************************)
Born == Cardinality({ r \in Runs : run[r].pc # "unborn" })

\* the filter of on_analysis_timer without the status test
IsReadyMutAny(o) == TRUE

\* if datasheet.status == CreatingResultFileStatus.READY
IsReady(o) == info[o].status = "Ready"

ReadySeq == SelectSeq(datasheets, IsReady)

Tick ==
    /\ Len(ReadySeq) > 0
    /\ Born + Len(ReadySeq) <= MaxRuns
    /\ run' = [r \in Runs |->
                 IF r > Born /\ r <= Born + Len(ReadySeq)
                 THEN [IdleRun EXCEPT !.pc = "spawned", !.d = ReadySeq[r - Born]]
                 ELSE run[r]]
    /\ UNCHANGED << datasheets, info, checkpoint_py, db, ret, parsed, constructed >>

(***************************************************************************)
(* analyze_datasheet, one step per call that blocks or touches shared      *)
(* state.                                                                  *)
(***************************************************************************)
\* the order with the record insert ahead of the checklist request
StepAfterMutPersistFirst(p) ==
    CASE p = "raster" -> "step1"
      [] p = "step1" -> "step2"
      [] p = "step2" -> "step3"
      [] p = "step3" -> "persist"
      [] p = "persist" -> "step4"
      [] p = "step4" -> "items"

\* the order without the record insert: the loop follows the checklist
\* request
StepAfterMutSkipPersist(p) ==
    CASE p = "raster" -> "step1"
      [] p = "step1" -> "step2"
      [] p = "step2" -> "step3"
      [] p = "step3" -> "step4"
      [] p = "step4" -> "items"
      [] p = "persist" -> "items"

\* the statement order of the try block: rasterize, steps 1-4, insert,
\* then the loop over the checklist
StepAfter(p) ==
    CASE p = "raster" -> "step1"
      [] p = "step1" -> "step2"
      [] p = "step2" -> "step3"
      [] p = "step3" -> "step4"
      [] p = "step4" -> "persist"
      [] p = "persist" -> "items"

\* for idx, checkpoint_text in enumerate(checkpoints_list): the next item,
\* or the statements after the loop
LoopPc(rec) == IF rec.idx <= Len(rec.checkpoints_list) THEN "tool" ELSE "finish"

Goto(rec, p) ==
    IF p = "items"
    THEN LET first == [rec EXCEPT !.idx = 1]
         IN  [first EXCEPT !.pc = LoopPc(first)]
    ELSE [rec EXCEPT !.pc = p]

NextItem(rec) ==
    LET nxt == [rec EXCEPT !.idx = @ + 1, !.python_code = NULL]
    IN  [nxt EXCEPT !.pc = LoopPc(nxt)]

\* the thread is over: its locals are gone
Ended(p) == [IdleRun EXCEPT !.pc = p]

\* thread start: datasheet.status = PROCESSING
Start(r) ==
    /\ run[r].pc = "spawned"
    /\ info' = [info EXCEPT ![run[r].d].status = "Processing"]
    /\ run' = [run EXCEPT ![r].pc = "raster"]
    /\ UNCHANGED << datasheets, checkpoint_py, db, ret, parsed, constructed >>

\* the handler of the outer try: status = READY
AbortMutKeepStatus(r) ==
    /\ run' = [run EXCEPT ![r] = Ended("aborted")]
    /\ info' = Heap(datasheets, run', info)
    /\ UNCHANGED << datasheets, checkpoint_py, db, ret, parsed, constructed >>

Abort(r) ==
    /\ run' = [run EXCEPT ![r] = Ended("aborted")]
    /\ info' = Heap(datasheets, run', [info EXCEPT ![run[r].d].status = "Ready"])
    /\ UNCHANGED << datasheets, checkpoint_py, db, ret, parsed, constructed >>

(***************************************************************************)
(* What the external collaborators may answer.                             *)
(***************************************************************************)
\* message.content of the step-1 answer, and content.strip() of each
VendorResponses == {" MP1497\n"}
Strip(s) == CASE s = " MP1497\n" -> "MP1497" [] OTHER -> s

\* message.content of the step-2 answer; the API types it Optional[str]
AnalysisResponses == {"report"}

\* the candidate payload of step 3 (tags_json: the first fenced block of
\* the answer, else the whole answer, stripped): a JSON array of tag
\* objects, the same array written with single quotes, or prose.  The
\* model takes the answer to be decided by the document: one file of the
\* folder draws an array, the other prose.
TagsJson == "[{\"Name\": \"Vin\", \"Description\": \"5V\"}]"
TagsQuoted == "[{'Name': 'Vin', 'Description': '5V'}]"
TagsProse == "Vin is 5V"
\* well-formed JSON that holds no tag: an object instead of the array, and
\* an array of bare names; the answers for a file that the watcher takes
\* for a result file and only a folder scan lists
TagsObject == "{\"Name\": \"Vin\", \"Description\": \"5V\"}"
TagsNames == "[\"Vin\", \"Iout\"]"
TagResponses(filename) ==
    CASE filename = "a.pdf" -> {TagsJson, TagsQuoted}
      [] filename = "test_results.pdf" -> {TagsObject, TagsNames}
      [] OTHER -> {TagsProse}

\* tags_json.replace("'", '"')
FixQuotes(s) == CASE s = TagsQuoted -> TagsJson [] OTHER -> s

\* json.loads(s) returns (TRUE) or raises json.JSONDecodeError (FALSE)
JsonLoads(s) == s \in {TagsJson, TagsObject, TagsNames}

\* if isinstance(tags_array, list): the entry of every dict of the array
\* that has 'Name' and 'Description'; else nothing but a print
TagEntries(s) ==
    CASE s = TagsJson -> {[key |-> "Vin", value |-> StrVal("5V")]}
      [] OTHER -> {}

\* the variant that discards a payload it cannot parse
ParseTagsMutDiscard(resp) ==
    IF JsonLoads(FixQuotes(resp))
    THEN TagEntries(FixQuotes(resp))
    ELSE {}

\* the metadata dictionary built from the payload: Name -> Description of
\* each tag object, or on json.JSONDecodeError the payload under 'tags_raw'
ParseTags(resp) ==
    IF JsonLoads(FixQuotes(resp))
    THEN TagEntries(FixQuotes(resp))
    ELSE {[key |-> "tags_raw", value |-> StrVal(resp)]}

\* the checklist parsed from the step-4 answer ([] when it does not parse)
ChecklistTexts == << "check VIN", "check GND", "check EN", "check FB" >>
Checklists == { SubSeq(ChecklistTexts, 1, n) : n \in 0 .. MaxItems }

\* the candidate payload of step 4 (checkpoints_json): a JSON array of
\* strings, a JSON value that is no array, or prose
ChecklistObject == "{\"checklist\": \"none\"}"
ChecklistProse == "check VIN first"
ChecklistResponses ==
    { JsonDumps(list) : list \in Checklists } \cup {ChecklistObject, ChecklistProse}

\* json.loads(checkpoints_json.replace("'", '"')) returns a list
IsChecklist(resp) == \E list \in Checklists : JsonDumps(list) = FixQuotes(resp)

\* the variant that takes a payload it cannot parse for a checklist of
\* one item
ParseChecklistMutKeep(resp) ==
    IF IsChecklist(resp)
    THEN CHOOSE list \in Checklists : JsonDumps(list) = FixQuotes(resp)
    ELSE << resp >>

\* checkpoints_list: [str(item) for item in the array]; [] when the
\* payload is no array or json.JSONDecodeError is raised
ParseChecklist(resp) ==
    IF IsChecklist(resp)
    THEN CHOOSE list \in Checklists : JsonDumps(list) = FixQuotes(resp)
    ELSE << >>

\* the content the tool writes for item i of run r
Code(r, i) == "code_" \o ToString(r) \o "_" \o ToString(i)

\* whole seconds that pass between two record inserts.  Timestamps are
\* only compared with one another, so "the same second" (0) is a case of
\* its own only when a row of the previous second is still stored.
Secs(d) == IF \E r \in d.analysis : r.created_at = d.clock THEN {0, 1} ELSE {1}
StoreFaults == {"none", "io"}

\* what calculate_file_hash may return for a file: the digest of its
\* content at that moment.  Digests are only compared with the stored ones
\* of the same filename, so a digest is named "h1" unless the content has
\* changed since a stored record of the filename was made ("h2").
FileHashes(d, filename) ==
    {"h1"} \cup IF \E row \in d.analysis : row.filename = filename /\ row.file_hash = "h1"
              THEN {"h2"} ELSE {}

Rasterize(r) ==
    /\ run[r].pc = "raster"
    /\ \/ /\ run' = [run EXCEPT ![r] = Goto(@, StepAfter("raster"))]
          /\ UNCHANGED << datasheets, info, checkpoint_py, db, ret, parsed, constructed >>
       \/ Abort(r)

Step1(r) ==
    /\ run[r].pc = "step1"
    /\ \/ \E resp \in VendorResponses :
            /\ run' = [run EXCEPT ![r] =
                         Goto([@ EXCEPT !.vendor_code = Strip(resp)], StepAfter("step1"))]
            /\ UNCHANGED << datasheets, info, checkpoint_py, db, ret, parsed, constructed >>
       \/ Abort(r)

Step2(r) ==
    /\ run[r].pc = "step2"
    /\ \/ \E resp \in AnalysisResponses :
            /\ run' = [run EXCEPT ![r] =
                         Goto([@ EXCEPT !.analysis_result = resp], StepAfter("step2"))]
            /\ UNCHANGED << datasheets, info, checkpoint_py, db, ret, parsed, constructed >>
       \/ Abort(r)

Step3(r) ==
    /\ run[r].pc = "step3"
    /\ \/ \E resp \in TagResponses(info[run[r].d].filename) :
            /\ run' = [run EXCEPT ![r] =
                         Goto([@ EXCEPT !.tags_json = resp, !.metadata = ParseTags(resp)],
                              StepAfter("step3"))]
            /\ UNCHANGED << datasheets, info, checkpoint_py, db, ret, parsed, constructed >>
       \/ Abort(r)

Step4(r) ==
    /\ run[r].pc = "step4"
    /\ \/ \E resp \in ChecklistResponses :
            LET list == ParseChecklist(resp)
            IN  /\ parsed + Len(list) <= MaxItems
                /\ parsed' = parsed + Len(list)
                /\ run' = [run EXCEPT ![r] =
                             Goto([@ EXCEPT !.tags_json = NULL, !.checkpoints_json = resp,
                                            !.checkpoints_list = list],
                                  StepAfter("step4"))]
            /\ UNCHANGED << datasheets, info, checkpoint_py, db, ret, constructed >>
       \/ Abort(r)

\* a variant of the handlers below that enters the checklist loop although
\* no record was written
AfterPersistErrorMutContinue(rec, raised) ==
    Goto([rec EXCEPT !.outcome = IF raised = "ValueError" THEN "duplicate" ELSE "error",
                     !.checkpoints_json = NULL],
         "items")

\* the handlers of the inner try: "except ValueError" and "except
\* Exception" both only print, and the statements after the try run
AfterPersistError(rec, raised) ==
    [rec EXCEPT !.outcome = IF raised = "ValueError" THEN "duplicate" ELSE "error",
                !.checkpoints_json = NULL, !.pc = "finish"]

\* file_hash = calculate_file_hash(file_path); self.db.insert_analysis(...)
Persist(r) ==
    /\ run[r].pc = "persist"
    /\ \/ \* calculate_file_hash raises (the file is gone or unreadable)
          /\ run' = [run EXCEPT ![r] = AfterPersistError(@, "OSError")]
          /\ db' = db
       \/ \E h \in FileHashes(db, info[run[r].d].filename),
             secs \in Secs(db), fault \in StoreFaults :
            LET res == InsertAnalysis(db, info[run[r].d].filename, run[r].analysis_result,
                                      run[r].vendor_code, h, run[r].metadata, secs, fault)
            IN  /\ db' = res.db
                /\ run' = [run EXCEPT ![r] =
                             IF res.raised = "none"
                             THEN Goto([@ EXCEPT !.datasheet_id = res.id, !.outcome = "saved",
                                                 !.analysis_result = NULL, !.metadata = {},
                                                 !.checkpoints_json = NULL],
                                       StepAfter("persist"))
                             ELSE AfterPersistError(@, res.raised)]
    /\ UNCHANGED << datasheets, info, checkpoint_py, ret, parsed, constructed >>

\* subprocess.run(cmd, ..., timeout=120): the tool may write the fixed
\* output file whatever its exit
ToolExits == {"zero", "nonzero", "timeout"}

Tool(r) ==
    /\ run[r].pc = "tool"
    /\ \E exit \in ToolExits, wrote \in BOOLEAN :
         /\ checkpoint_py' = IF wrote THEN Code(r, run[r].idx) ELSE checkpoint_py
         /\ run' = [run EXCEPT ![r].pc = IF exit = "zero" THEN "read" ELSE "fallback"]
    /\ UNCHANGED << datasheets, info, db, ret, parsed, constructed >>

\* os.path.exists(checkpoint_py_path), then open(...).read()
Read(r) ==
    /\ run[r].pc = "read"
    /\ \/ /\ checkpoint_py # NULL
          /\ run' = [run EXCEPT ![r].python_code = checkpoint_py, ![r].pc = "save"]
       \/ \* the file is missing, or reading it raises
          run' = [run EXCEPT ![r].pc = "fallback"]
    /\ UNCHANGED << datasheets, info, checkpoint_py, db, ret, parsed, constructed >>

\* insert_checkpoint(datasheet_id, checkpoint_text, python_code)
Save(r) ==
    /\ run[r].pc = "save"
    /\ \E fault \in StoreFaults :
         LET res == InsertCheckpoint(db, run[r].datasheet_id,
                                     run[r].checkpoints_list[run[r].idx],
                                     run[r].python_code, fault)
         IN  /\ db' = res.db
             /\ run' = [run EXCEPT ![r] =
                          IF res.raised = "none" THEN NextItem(@)
                          ELSE [@ EXCEPT !.pc = "fallback", !.python_code = NULL]]
    /\ UNCHANGED << datasheets, info, checkpoint_py, ret, parsed, constructed >>

\* the handler without its insert: the failed item is skipped
FallbackMutSkip(r) ==
    /\ run[r].pc = "fallback"
    /\ db' = db
    /\ run' = [run EXCEPT ![r] = NextItem(@)]
    /\ UNCHANGED << datasheets, info, checkpoint_py, ret, parsed, constructed >>

\* except Exception: insert_checkpoint(..., python_code=""), and a bare
\* except: pass around it
Fallback(r) ==
    /\ run[r].pc = "fallback"
    /\ \E fault \in StoreFaults :
         LET res == InsertCheckpoint(db, run[r].datasheet_id,
                                     run[r].checkpoints_list[run[r].idx], "", fault)
         IN  /\ db' = res.db
             /\ run' = [run EXCEPT ![r] =
                          NextItem([@ EXCEPT !.dropped =
                                      IF res.raised = "none" THEN @ ELSE @ + 1])]
    /\ UNCHANGED << datasheets, info, checkpoint_py, ret, parsed, constructed >>

\* datasheet.status = FINISH
Finish(r) ==
    /\ run[r].pc = "finish"
    /\ run' = [run EXCEPT ![r] = Ended("done")]
    /\ info' = Heap(datasheets, run', [info EXCEPT ![run[r].d].status = "Finish"])
    /\ UNCHANGED << datasheets, checkpoint_py, db, ret, parsed, constructed >>

(***************************************************************************)
(* on_reanalyze: for each checked row, delete the record                   *)
(* get_analysis_by_filename returns and set the descriptor Ready.          *)
(***************************************************************************)
DeleteLatest(d, filename) ==
    IF GetAnalysisByFilename(d, filename) = {} THEN {d}
    ELSE { DeleteAnalysis(d, c.id) : c \in GetAnalysisByFilename(d, filename) }

\* the stores the loop over the checked rows may leave
RECURSIVE ReanalyzeDbs(_, _)
ReanalyzeDbs(d, names) ==
    IF names = << >> THEN {d}
    ELSE UNION { ReanalyzeDbs(d2, Tail(names)) : d2 \in DeleteLatest(d, Head(names)) }

\* the rows of a set, in table order
RowSeq(rows) == SelectSeq([i \in 1 .. Len(datasheets) |-> i], LAMBDA i : i \in rows)

\* the descriptors on_reanalyze resets: every checked row
Resets(rows) == { datasheets[i] : i \in rows }

Reanalyze ==
    \E rows \in SUBSET (1 .. Len(datasheets)) :
      /\ rows # {}
      /\ db' \in ReanalyzeDbs(db, [k \in 1 .. Len(RowSeq(rows)) |->
                                     info[datasheets[RowSeq(rows)[k]]].filename])
      /\ info' = [o \in ObjIds |->
                    IF o \in Resets(rows) THEN [info[o] EXCEPT !.status = "Ready"]
                    ELSE info[o]]
      /\ UNCHANGED << datasheets, run, checkpoint_py, ret, parsed, constructed >>

(***************************************************************************)
(* File-system events (DatasheetFileHandler -> on_file_changed) and the    *)
(* folder scan.                                                            *)
(***************************************************************************)
\* Paths under the watched folder (the observer is scheduled with
\* recursive=True): the folder of a path is "root" for a file directly in
\* the watched folder, else the subfolder that holds it.
EventNames == Filenames \cup {"n.txt", "test_results.pdf"}
Folders == {"root", "results", "archive"}
Paths == [folder : Folders, name : EventNames]
NoPath == [folder |-> NULL, name |-> NULL]

\* os.path.splitext(filename)[1].lower()
Ext(name) ==
    CASE name = "a.pdf" -> ".pdf"
      [] name = "b.png" -> ".png"
      [] name = "n.txt" -> ".txt"
      [] name = "test_results.pdf" -> ".pdf"
      [] name = "old.pdf" -> ".pdf"
      [] OTHER -> ""

RecognizedExts == {".pdf", ".png", ".jpg", ".jpeg", ".bmp", ".gif", ".tiff"}

\* "results" in s, for the path components of the model
HasResults(s) == s \in {"results", "test_results.pdf"}

\* is_results_folder = "results" in src_path: a substring test on the whole
\* path, the file name included
IsResultsFolder(path) == HasResults(path.folder) \/ HasResults(path.name)

\* os.path.basename
Basename(path) == path.name

\* what on_file_changed takes from a path before it acts
Event(path) == [results |-> IsResultsFolder(path), filename |-> Basename(path)]
Events == { Event(p) : p \in Paths }

\* on_file_changed('created', src_path) on the descriptor list
OnCreated(ev) ==
    IF ~ev.results /\ Ext(ev.filename) \in RecognizedExts
    THEN /\ constructed < MaxDescriptors
         /\ constructed' = constructed + 1
         /\ datasheets' = Append(datasheets, constructed + 1)
         /\ info' = [info EXCEPT ![constructed + 1] = NewInfo(ev.filename)]
    ELSE UNCHANGED << datasheets, info, constructed >>

\* on_file_changed('deleted', src_path) on the descriptor list
OnDeleted(ev) ==
    IF ~ev.results
    THEN /\ datasheets' = SelectSeq(datasheets, LAMBDA o : info[o].filename # ev.filename)
         /\ info' = Heap(datasheets', run, info)
         /\ constructed' = constructed
    ELSE UNCHANGED << datasheets, info, constructed >>

\* the first descriptor named old_filename takes the new name
FirstNamed(name) ==
    IF \E i \in 1 .. Len(datasheets) : info[datasheets[i]].filename = name
    THEN datasheets[CHOOSE i \in 1 .. Len(datasheets) :
                      /\ info[datasheets[i]].filename = name
                      /\ \A j \in 1 .. i - 1 : info[datasheets[j]].filename # name]
    ELSE NoObj

\* on_file_changed('renamed', src_path, dest_path) on the descriptor list
OnRenamed(ev, new_filename) ==
    IF ~ev.results /\ FirstNamed(ev.filename) # NoObj
    THEN /\ info' = [info EXCEPT ![FirstNamed(ev.filename)].filename = new_filename]
         /\ UNCHANGED << datasheets, constructed >>
    ELSE UNCHANGED << datasheets, info, constructed >>

\* The events that reach the descriptor list.  An event the handler
\* answers with a refresh of the views only (ResultsEvent, or a file of
\* another type) leaves the state as it is.
FileCreated ==
    \E ev \in Events :
      /\ ~ev.results
      /\ Ext(ev.filename) \in RecognizedExts
      /\ OnCreated(ev)
      /\ UNCHANGED << run, checkpoint_py, db, ret, parsed >>

FileDeleted ==
    \E ev \in Events :
      /\ ~ev.results
      /\ OnDeleted(ev)
      /\ UNCHANGED << run, checkpoint_py, db, ret, parsed >>

FileRenamed ==
    \E ev \in Events, new_filename \in EventNames :
      /\ ~ev.results
      /\ FirstNamed(ev.filename) # NoObj
      /\ OnRenamed(ev, new_filename)
      /\ UNCHANGED << run, checkpoint_py, db, ret, parsed >>

\* events under the results folder only refresh the views
ResultsEvent ==
    \E path \in Paths :
      /\ IsResultsFolder(path)
      /\ UNCHANGED vars

\* the orders in which os.listdir may list a set of names
Listings(names) ==
    { q \in UNION { [1 .. n -> names] : n \in 0 .. Cardinality(names) } :
        /\ Len(q) = Cardinality(names)
        /\ \A i, j \in 1 .. Len(q) : i # j => q[i] # q[j] }

\* the entries os.listdir(self.folder_path) may return: the files of the
\* folder and a subfolder, whose name ends like that of a datasheet
ScanDir == "old.pdf"
Entries == EventNames \cup {ScanDir}

\* os.path.isfile(file_path)
IsFile(name) == name # ScanDir

\* the scan that takes every descriptor for new
ScanStatusMutReady(d, filename) == "Ready"

\* db_result = self.db.get_analysis_by_filename(filename); a descriptor is
\* Finish when the store has a record of its name
ScanStatus(d, filename) ==
    IF GetAnalysisByFilename(d, filename) # {} THEN "Finish" ELSE "Ready"

\* load_datasheets (start-up, on_set_folder): the list is rebuilt from the
\* folder; ret is the listing the scan read
LoadDatasheets ==
    \E present \in SUBSET Entries :
      \E listing \in Listings(present) :
        LET kept == SelectSeq(listing, LAMBDA n : IsFile(n) /\ Ext(n) \in RecognizedExts)
            objs == [i \in 1 .. Len(kept) |-> constructed + i]
            built == [o \in ObjIds |->
                        IF o > constructed /\ o <= constructed + Len(kept)
                        THEN [filename |-> kept[o - constructed],
                              status |-> ScanStatus(db, kept[o - constructed])]
                        ELSE info[o]]
        IN  /\ constructed + Len(kept) <= MaxDescriptors
            /\ constructed' = constructed + Len(kept)
            /\ datasheets' = objs
            /\ info' = Heap(objs, run, built)
            /\ ret' = [NoCall EXCEPT !.op = "load_datasheets", !.listing = listing]
            /\ UNCHANGED << run, checkpoint_py, db, parsed >>

(***************************************************************************)
(* The file watcher alone: every event the observer delivers is a step,    *)
(* and ret is the event just handled, with the thread its table refresh    *)
(* ran on.                                                                 *)
(***************************************************************************)
\* The threads of a table refresh: the Qt GUI thread, which owns the
\* widgets, and the thread of the watchdog Observer, which calls the
\* callbacks of DatasheetFileHandler.
GuiThread == "gui"
ObserverThread == "observer"

\* self.update_table(): an ordinary call runs on the thread of its caller
Called(caller) == caller

\* whether on_file_changed reaches a table refresh, and how it makes it
CreatedRefresh(ev, caller) ==
    IF ev.results \/ Ext(ev.filename) \in RecognizedExts THEN Called(caller) ELSE "none"
DeletedRefresh(ev, caller) == Called(caller)
RenamedRefresh(ev, caller) == IF ~ev.results THEN Called(caller) ELSE "none"

WatchCreated ==
    \E path \in Paths :
      /\ OnCreated(Event(path))
      /\ ret' = [NoCall EXCEPT !.op = "created", !.src = path,
                               !.refreshed_on = CreatedRefresh(Event(path), ObserverThread)]
      /\ UNCHANGED << run, checkpoint_py, db, parsed >>

WatchDeleted ==
    \E path \in Paths :
      /\ OnDeleted(Event(path))
      /\ ret' = [NoCall EXCEPT !.op = "deleted", !.src = path,
                               !.refreshed_on = DeletedRefresh(Event(path), ObserverThread)]
      /\ UNCHANGED << run, checkpoint_py, db, parsed >>

WatchRenamed ==
    \E src \in Paths, dest \in Paths :
      /\ OnRenamed(Event(src), Basename(dest))
      /\ ret' = [NoCall EXCEPT !.op = "renamed", !.src = src, !.dest = dest,
                               !.refreshed_on = RenamedRefresh(Event(src), ObserverThread)]
      /\ UNCHANGED << run, checkpoint_py, db, parsed >>

NextWatch ==
    \/ WatchCreated
    \/ WatchDeleted
    \/ WatchRenamed

SpecWatch == Init /\ [][NextWatch]_vars

RunStep(r) ==
    \/ Start(r) \/ Rasterize(r) \/ Step1(r) \/ Step2(r) \/ Step3(r) \/ Step4(r)
    \/ Persist(r) \/ Tool(r) \/ Read(r) \/ Save(r) \/ Fallback(r) \/ Finish(r)

(***************************************************************************)
(* The store called through its API with any arguments, one call at a      *)
(* time; ret is the call just made.                                        *)
(***************************************************************************)
TextArgs == {"report", NULL}
HashArgs == {"h1", NULL}
MetadataArgs ==
    { {},
      {[key |-> "Vin", value |-> StrVal("5V")],
       [key |-> "pins", value |-> ListVal(<< "EN", "FB" >>)]},
      {[key |-> "pin_count", value |-> StrVal("5")]} }

DbInsertAnalysis ==
    \E filename \in Filenames, text \in TextArgs, h \in HashArgs,
       meta \in MetadataArgs, fault \in StoreFaults :
      \E secs \in Secs(db) :
        LET res == InsertAnalysis(db, filename, text, "MP1497", h, meta, secs, fault)
        IN  /\ db.seq_analysis < MaxRecords
            /\ db' = res.db
            /\ ret' = [NoCall EXCEPT !.op = "insert_analysis", !.filename = filename,
                                     !.analysis_result = text, !.file_hash = h,
                                     !.metadata = meta, !.id = res.id,
                                     !.raised = res.raised]
            /\ UNCHANGED << datasheets, info, run, checkpoint_py, parsed, constructed >>

DbDeleteAnalysis ==
    \E id \in 1 .. MaxRecords :
      /\ db' = DeleteAnalysis(db, id)
      /\ ret' = [NoCall EXCEPT !.op = "delete_analysis", !.id = id]
      /\ UNCHANGED << datasheets, info, run, checkpoint_py, parsed, constructed >>

DbInsertCheckpoint ==
    \E id \in 1 .. MaxRecords, code \in {"", "code"}, fault \in StoreFaults :
      LET res == InsertCheckpoint(db, id, "check VIN", code, fault)
      IN  /\ Cardinality(db.checkpoint) < MaxCheckpoints
          /\ db' = res.db
          /\ ret' = [NoCall EXCEPT !.op = "insert_checkpoint", !.id = id,
                                   !.raised = res.raised]
          /\ UNCHANGED << datasheets, info, run, checkpoint_py, parsed, constructed >>

UpdateTexts == {"revised", NULL}
UpdateVendors == {"TPS54", NULL}
UpdateMetadata == { {}, {[key |-> "Vin", value |-> StrVal("3V3")]} }

DbUpdateAnalysis ==
    \E id \in 1 .. MaxRecords, text \in UpdateTexts, vendor \in UpdateVendors,
       meta \in UpdateMetadata, fault \in StoreFaults :
      LET res == UpdateAnalysis(db, id, text, vendor, meta, fault)
      IN  /\ db' = res.db
          /\ ret' = [NoCall EXCEPT !.op = "update_analysis", !.id = id,
                                   !.analysis_result = text, !.vendor_code = vendor,
                                   !.metadata = meta, !.raised = res.raised]
          /\ UNCHANGED << datasheets, info, run, checkpoint_py, parsed, constructed >>

NextDB ==
    \/ DbInsertAnalysis
    \/ DbDeleteAnalysis
    \/ DbInsertCheckpoint

SpecDB == Init /\ [][NextDB]_vars

(***************************************************************************)
(* The store under update_analysis: records are inserted as the pipeline   *)
(* inserts them, one per file, and then updated and deleted through the    *)
(* API.                                                                    *)
(***************************************************************************)
PipelineMetadata ==
    {[key |-> "Vin", value |-> StrVal("5V")],
     [key |-> "pins", value |-> ListVal(<< "EN", "FB" >>)]}

UpInsertAnalysis ==
    \E filename \in Filenames :
      LET res == InsertAnalysis(db, filename, "report", "MP1497", "h1",
                                PipelineMetadata, 1, "none")
      IN  /\ db.seq_analysis < MaxRecords
          /\ db' = res.db
          /\ ret' = [NoCall EXCEPT !.op = "insert_analysis", !.filename = filename,
                                   !.analysis_result = "report", !.vendor_code = "MP1497",
                                   !.file_hash = "h1", !.metadata = PipelineMetadata,
                                   !.id = res.id, !.raised = res.raised]
          /\ UNCHANGED << datasheets, info, run, checkpoint_py, parsed, constructed >>

NextUpdate ==
    \/ UpInsertAnalysis
    \/ DbUpdateAnalysis
    \/ DbDeleteAnalysis

SpecUpdate == Init /\ [][NextUpdate]_vars

(***************************************************************************)
(* The start of a session: the store holds what earlier sessions left, and *)
(* the folder is scanned.                                                  *)
(***************************************************************************)
NextScan ==
    \/ DbInsertAnalysis
    \/ DbDeleteAnalysis
    \/ LoadDatasheets

SpecScan == Init /\ [][NextScan]_vars

(***************************************************************************)
(* The analyzer at work: the timer, the worker threads, the manual reset   *)
(* and the creation and deletion of files in the watched folder.           *)
(***************************************************************************)
Next ==
    \/ Tick
    \/ \E r \in Runs : Start(r)
    \/ \E r \in Runs : Rasterize(r)
    \/ \E r \in Runs : Step1(r)
    \/ \E r \in Runs : Step2(r)
    \/ \E r \in Runs : Step3(r)
    \/ \E r \in Runs : Step4(r)
    \/ \E r \in Runs : Persist(r)
    \/ \E r \in Runs : Tool(r)
    \/ \E r \in Runs : Read(r)
    \/ \E r \in Runs : Save(r)
    \/ \E r \in Runs : Fallback(r)
    \/ \E r \in Runs : Finish(r)
    \/ Reanalyze
    \/ FileCreated
    \/ FileDeleted

Spec == Init /\ [][Next]_vars

\* every started thread keeps being scheduled
FairSpec == Spec /\ \A r \in Runs : WF_vars(RunStep(r))

(***************************************************************************)
(* The analyzer started on a folder that exists: __init__ has scanned the  *)
(* folder, so the list also holds the files whose name the watcher takes   *)
(* for a result file; then the timer and the threads run.                  *)
(***************************************************************************)
\* the files the scan of __init__ keeps, in the order os.listdir gave
StartupFiles == { n \in Entries : IsFile(n) /\ Ext(n) \in RecognizedExts }
StartupListings ==
    UNION { Listings(present) : present \in { fs \in SUBSET StartupFiles :
                                                 Cardinality(fs) \in 1 .. MaxDescriptors } }

InitStartup ==
    \E kept \in StartupListings :
      /\ datasheets = [i \in 1 .. Len(kept) |-> i]
      /\ info = [o \in ObjIds |->
                   IF o <= Len(kept)
                   THEN [filename |-> kept[o], status |-> ScanStatus(EmptyDB, kept[o])]
                   ELSE NoInfo]
      /\ run = [r \in Runs |-> IdleRun]
      /\ checkpoint_py = NULL
      /\ db = EmptyDB
      /\ ret = NoCall
      /\ parsed = 0
      /\ constructed = Len(kept)

NextStartup ==
    \/ Tick
    \/ \E r \in Runs : Start(r)
    \/ \E r \in Runs : Rasterize(r)
    \/ \E r \in Runs : Step1(r)
    \/ \E r \in Runs : Step2(r)
    \/ \E r \in Runs : Step3(r)
    \/ \E r \in Runs : Step4(r)
    \/ \E r \in Runs : Persist(r)
    \/ \E r \in Runs : Tool(r)
    \/ \E r \in Runs : Read(r)
    \/ \E r \in Runs : Save(r)
    \/ \E r \in Runs : Fallback(r)
    \/ \E r \in Runs : Finish(r)

SpecStartup == InitStartup /\ [][NextStartup]_vars

(***************************************************************************)
(* Properties.                                                             *)
(***************************************************************************)
InFlight(r) == run[r].pc \notin {"unborn", "done", "aborted"}
EarlyPcs == {"raster", "step1", "step2", "step3", "step4"}
Step5Pcs == {"tool", "read", "save", "fallback"}

\* C1: at no time are two analysis runs in flight for the same descriptor.
C1_OneRunPerDescriptor ==
    \A r1, r2 \in Runs :
      (r1 # r2 /\ InFlight(r1) /\ InFlight(r2)) => run[r1].d # run[r2].d

\* C2: the status of a descriptor changes only along Ready -> Processing,
\* Processing -> Finish, Processing -> Ready and Finish -> Ready.
StatusMoves ==
    { << "Ready", "Processing" >>, << "Processing", "Finish" >>,
      << "Processing", "Ready" >>, << "Finish", "Ready" >> }

C2_StatusMoves ==
    [][\A o \in ObjIds :
         (info[o] # NoInfo /\ info'[o] # NoInfo /\ info'[o].status # info[o].status)
           => << info[o].status, info'[o].status >> \in StatusMoves]_vars

\* C3: every run that has set its descriptor Processing comes to an end,
\* and the step that ends it leaves the descriptor (if the list still holds
\* it) Finish or Ready, never Processing.  A thread's position only moves
\* forward and an ended thread is never started again, so "every run that
\* is past its first statement ends" is "from some moment on no run is
\* between its first statement and its end".
C3_RunsEnd ==
    /\ <>[](\A r \in Runs : run[r].pc \in {"unborn", "spawned", "done", "aborted"})
    /\ [][\A r \in Runs :
            (InFlight(r) /\ run'[r].pc \in {"done", "aborted"}
               /\ InList(datasheets', run[r].d))
              => info'[run[r].d].status \in {"Finish", "Ready"}]_vars

C3_Witness ==
    \E r1, r2 \in Runs : run[r1].pc = "done" /\ run[r2].pc = "aborted"

\* C4: a run whose record insert failed for a reason other than a duplicate
\* ends aborted, with its descriptor Ready.
C4_InsertErrorAborts ==
    [][\A r \in Runs :
         (run[r].outcome = "error" /\ run'[r].pc \in {"done", "aborted"})
           => /\ run'[r].pc = "aborted"
              /\ InList(datasheets', run[r].d) => info'[run[r].d].status = "Ready"]_vars

\* C5: a run that fails in rasterization or in one of steps 1-4 ends with
\* its descriptor Ready, has inserted no record, and its failing step
\* writes nothing to the store.
C5_EarlyFailureWritesNothing ==
    [][\A r \in Runs :
         (run[r].pc \in EarlyPcs /\ run'[r].pc \notin EarlyPcs \cup {"persist"})
           => /\ run'[r].pc = "aborted"
              /\ InList(datasheets', run[r].d) => info'[run[r].d].status = "Ready"
              /\ run[r].datasheet_id = NoId
              /\ run[r].outcome = "none"
              /\ db' = db]_vars

C5_Witness ==
    /\ \E r \in Runs : run[r].pc = "aborted"
    /\ \E i \in 1 .. Len(datasheets) : info[datasheets[i]].status = "Ready"
    /\ db = EmptyDB
    /\ parsed > 0

\* C6 as stated: the record has been persisted when the step-4 request is
\* about to be issued, and whenever step 5 is at work.
C6_PersistBeforeStep4 ==
    \A r \in Runs : run[r].pc \in {"step4"} \cup Step5Pcs => run[r].outcome = "saved"

\* C6: the record is persisted after the step-4 answer is parsed and before
\* any step-5 synthesis: no record while the run is in rasterization or
\* steps 1-4, a record whenever the run is in step 5.
C6_PersistBeforeStep5 ==
    \A r \in Runs :
      /\ run[r].pc \in EarlyPcs => run[r].outcome = "none" /\ run[r].datasheet_id = NoId
      /\ run[r].pc \in Step5Pcs =>
           run[r].outcome = "saved" /\ run[r].datasheet_id \in 1 .. db.seq_analysis

C6_Witness ==
    \E r \in Runs : run[r].pc = "tool" /\ run[r].outcome = "saved"
                    /\ Len(run[r].checkpoints_list) = MaxItems

\* C7: the code a run is about to persist for a checklist item is never
\* code that another run, in flight for a different descriptor, produced.
C7_RunsIsolated ==
    \A r, o \in Runs :
      (r # o /\ run[r].pc = "save" /\ InFlight(o) /\ run[o].d # run[r].d)
        => \A i \in 1 .. MaxItems : run[r].python_code # Code(o, i)

\* C8 as stated: an insert of a (filename, hash) pair that a stored record
\* already has, the hash absent or not, is answered by the store with the
\* duplicate error and leaves the store as it was.
HasPair(d, filename, file_hash) ==
    \E row \in d.analysis : row.filename = filename /\ row.file_hash = file_hash

\* the call ret records was answered by sqlite (no operational error)
Answered(call) == call.op = "insert_analysis" /\ call.raised # "OperationalError"

C8_DuplicateRejected ==
    [][(Answered(ret') /\ HasPair(db, ret'.filename, ret'.file_hash))
         => (ret'.raised = "ValueError" /\ db' = db)]_vars

\* C9: once delete_analysis(id) has returned, the store holds no metadata
\* entry and no checklist item whose owner is id.
C9_DeleteCascades ==
    ret.op = "delete_analysis"
      => MetadataOf(db, ret.id) = {} /\ CheckpointsOf(db, ret.id) = {}

ItemsOfRun(r) == CheckpointsOf(db, run[r].datasheet_id)

C11_DuplicateEndsFinish ==
    [][\A r \in Runs :
         /\ (run[r].pc = "persist" /\ run'[r].outcome = "duplicate")
              => (run'[r].pc = "finish" /\ db' = db)
         /\ (run[r].outcome = "duplicate" /\ run'[r] # run[r])
              => /\ run'[r].pc = "done"
                 /\ db' = db
                 /\ InList(datasheets', run[r].d)
                      => info'[run[r].d].status = "Finish"]_vars

C11_Witness ==
    \E r \in Runs :
      /\ run[r].pc = "finish"
      /\ run[r].outcome = "duplicate"
      /\ InList(datasheets, run[r].d)
      /\ \E row \in db.analysis : row.filename = info[run[r].d].filename
      /\ Len(run[r].checkpoints_list) = MaxItems

\* C12: a tick starts exactly one worker for each descriptor of the list
\* that is Ready at the tick, and none for any other descriptor.
Spawned(r) == run[r].pc = "unborn" /\ run'[r].pc = "spawned"

C12_TickDispatch ==
    [][(\E r \in Runs : Spawned(r))
         => \A o \in ObjIds :
              Cardinality({ r \in Runs : Spawned(r) /\ run'[r].d = o })
                = IF InList(datasheets, o) /\ info[o].status = "Ready" THEN 1 ELSE 0]_vars

C12_Witness ==
    \E r \in Runs, i \in 1 .. Len(datasheets) :
      /\ run[r].pc = "spawned"
      /\ info[datasheets[i]].status \in {"Processing", "Finish"}
      /\ \A r2 \in Runs : run[r2].pc = "spawned" => run[r2].d # datasheets[i]

\* C13: a manual reset (a step of on_reanalyze: the list and the threads
\* stay as they are) leaves no record in the store for the filename of a
\* descriptor it has set Ready or whose record it has deleted.
ResetStep == run' = run /\ datasheets' = datasheets

C13_ResetClearsRecords ==
    [][ResetStep =>
         \A o \in ObjIds :
           (/\ InList(datasheets, o)
            /\ info'[o].status = "Ready"
            /\ \/ info[o].status # "Ready"
               \/ \E row \in db.analysis \ db'.analysis :
                    row.filename = info[o].filename)
             => ~ \E row \in db'.analysis : row.filename = info[o].filename]_vars

\* C14: the store never holds two records with the same (filename, hash)
\* pair; every id in the store is at most the last id handed out; and a
\* run whose insert succeeds (after a reset or not) adds exactly one
\* record, of its filename, whose id is larger than every id handed out
\* before, deleted records included.
C14_NewIdUniquePair ==
    /\ [](/\ \A r1, r2 \in db.analysis :
               (r1.filename = r2.filename /\ r1.file_hash = r2.file_hash) => r1 = r2
          /\ \A row \in db.analysis : row.id \in 1 .. db.seq_analysis)
    /\ [][\A r \in Runs :
            (run[r].pc = "persist" /\ run'[r].outcome = "saved")
              => /\ run'[r].datasheet_id > db.seq_analysis
                 /\ db'.seq_analysis = run'[r].datasheet_id
                 /\ \E row \in db'.analysis :
                      /\ db'.analysis = db.analysis \cup {row}
                      /\ row \notin db.analysis
                      /\ row.id = run'[r].datasheet_id
                      /\ row.filename = info[run[r].d].filename]_vars

\* a.pdf was analysed, reset and analysed again: record 1 is gone, record 2
\* is stored and the descriptor is Finish
C14_Witness ==
    /\ \E row \in db.analysis : row.id = 2 /\ row.filename = "a.pdf" /\ row.file_hash = "h1"
    /\ \A row \in db.analysis : row.id # 1
    /\ \E i \in 1 .. Len(datasheets) :
         info[datasheets[i]].filename = "a.pdf" /\ info[datasheets[i]].status = "Finish"
    /\ \A r \in Runs : run[r].pc = "done"
    /\ constructed = 1

\* C15: a creation or deletion event for a file of a recognized type
\* changes the descriptor list exactly when the file lies directly in the
\* watched folder: such a creation appends a Ready descriptor of its name,
\* such a deletion removes the descriptors of its name, and any other such
\* event, like every event under the output subfolder, leaves the list
\* and the names in it as they are.
Direct(path) == path.folder = "root"

SameDescriptors ==
    /\ datasheets' = datasheets
    /\ \A i \in 1 .. Len(datasheets) : info'[datasheets[i]] = info[datasheets[i]]

C15_EventsOfTheFolder ==
    [][/\ (ret'.op = "created" /\ Ext(ret'.src.name) \in RecognizedExts)
            => IF Direct(ret'.src)
               THEN /\ Len(datasheets') = Len(datasheets) + 1
                    /\ SubSeq(datasheets', 1, Len(datasheets)) = datasheets
                    /\ info'[datasheets'[Len(datasheets')]] =
                         [filename |-> ret'.src.name, status |-> "Ready"]
               ELSE SameDescriptors
       /\ (ret'.op = "deleted" /\ Ext(ret'.src.name) \in RecognizedExts)
            => IF Direct(ret'.src)
               THEN datasheets' =
                      SelectSeq(datasheets, LAMBDA o : info[o].filename # ret'.src.name)
               ELSE SameDescriptors
       /\ (ret'.op \in {"created", "deleted", "renamed"} /\ ret'.src.folder = "results")
            => SameDescriptors]_vars


(***************************************************************************)
(* The analyzer while every external call of a run answers: no step raises *)
(* into the outer handler, and neither the hash of the file nor the record *)
(* insert ends in an error.  The timer keeps firing and every started      *)
(* thread keeps being scheduled.                                           *)
(***************************************************************************)
Succeeds == \A r \in Runs : run'[r].pc # "aborted" /\ run'[r].outcome # "error"

NextOk ==
    \/ Tick
    \/ \E r \in Runs : Start(r) /\ Succeeds
    \/ \E r \in Runs : Rasterize(r) /\ Succeeds
    \/ \E r \in Runs : Step1(r) /\ Succeeds
    \/ \E r \in Runs : Step2(r) /\ Succeeds
    \/ \E r \in Runs : Step3(r) /\ Succeeds
    \/ \E r \in Runs : Step4(r) /\ Succeeds
    \/ \E r \in Runs : Persist(r) /\ Succeeds
    \/ \E r \in Runs : Tool(r) /\ Succeeds
    \/ \E r \in Runs : Read(r) /\ Succeeds
    \/ \E r \in Runs : Save(r) /\ Succeeds
    \/ \E r \in Runs : Fallback(r) /\ Succeeds
    \/ \E r \in Runs : Finish(r) /\ Succeeds
    \/ FileCreated
    \/ FileDeleted

SpecOk ==
    /\ Init /\ [][NextOk]_vars
    /\ WF_vars(Tick)
    /\ \A r \in Runs : WF_vars(RunStep(r) /\ Succeeds)


\* the record get_analysis_by_filename returns for the filename exists and
\* carries an answer of step 2 and the stripped answer of step 1
Analysed(d, filename) ==
    /\ GetAnalysisByFilename(d, filename) # {}
    /\ \A c \in GetAnalysisByFilename(d, filename) :
         /\ c.analysis_result \in AnalysisResponses
         /\ c.vendor_code \in { Strip(v) : v \in VendorResponses }

\* the timer can start a thread for every descriptor that is or may yet
\* become Ready (MaxRuns caps the threads the model starts)
RunsLeft == Born + Len(ReadySeq) + (MaxDescriptors - constructed) <= MaxRuns

\* C16: while every external call succeeds and the timer keeps firing, a
\* descriptor created Ready for a new file comes to Finish (unless its file
\* is deleted first), it becomes Finish only from Processing, and once it is
\* Finish get_analysis_by_filename returns, and keeps returning, a record of
\* its filename with the step-2 text and the step-1 vendor code.
C16_CreatedFileIsAnalysed ==
    /\ \A o \in ObjIds :
         (InList(datasheets, o) /\ info[o].status = "Ready" /\ RunsLeft)
           ~> (info[o].status = "Finish" \/ ~InList(datasheets, o))
    /\ [][\A o \in ObjIds :
            (info[o] # NoInfo /\ info'[o] # NoInfo
               /\ info[o].status # "Finish" /\ info'[o].status = "Finish")
              => info[o].status = "Processing"]_vars
    /\ [](\A o \in ObjIds :
            (info[o] # NoInfo /\ info[o].status = "Finish")
              => Analysed(db, info[o].filename))
    /\ [][\A f \in Filenames : Analysed(db, f) => Analysed(db', f)]_vars

C16_Witness ==
    \E o \in ObjIds :
      /\ InList(datasheets, o) /\ info[o] = [filename |-> "a.pdf", status |-> "Finish"]
      /\ Analysed(db, "a.pdf")
      /\ \A r \in Runs : run[r].pc \in {"unborn", "done"}


\* the rows insert_analysis writes for a dictionary are the rows stored
\* for the record a run has just saved
MetadataSaved(r) ==
    (run[r].pc = "persist" /\ run'[r].outcome = "saved")
      => /\ MetadataRows(run'[r].datasheet_id, run[r].metadata) \subseteq db'.metadata
         /\ \A e \in run[r].metadata :
              e.key = "tags_raw" =>
                [datasheet_id |-> run'[r].datasheet_id, key |-> "tags_raw",
                 value |-> e.value.v] \in db'.metadata

\* the step-3 answer of run r has arrived with this step
TagsArrive(r) == run[r].pc = "step3" /\ run'[r].tags_json # NULL

RawKept(r) ==
    /\ run'[r].pc = "step4"
    /\ [key |-> "tags_raw", value |-> StrVal(run'[r].tags_json)] \in run'[r].metadata

\* C17 as stated: when the step-3 candidate payload is not well-formed
\* JSON, the run goes on to the step-4 request with the payload in its
\* metadata under 'tags_raw', and that entry is stored with the record.
C17_MalformedTagsKept ==
    [][\A r \in Runs :
         /\ (TagsArrive(r) /\ ~JsonLoads(run'[r].tags_json)) => RawKept(r)
         /\ MetadataSaved(r)]_vars

\* C17: when the step-3 candidate payload is not well-formed JSON after its
\* single quotes have been replaced by double quotes, the run goes on to the
\* step-4 request with the payload in its metadata under 'tags_raw', and
\* that entry is stored with the record.
C17_UnparsedTagsKept ==
    [][\A r \in Runs :
         /\ (TagsArrive(r) /\ ~JsonLoads(FixQuotes(run'[r].tags_json))) => RawKept(r)
         /\ MetadataSaved(r)]_vars

C17_Witness ==
    /\ \E m \in db.metadata : m.key = "tags_raw" /\ m.value = TagsProse
    /\ \E o \in ObjIds : info[o] = [filename |-> "b.png", status |-> "Finish"]


\* the step-4 answer of run r has arrived with this step
ChecklistArrives(r) == run[r].pc = "step4" /\ run'[r].checkpoints_json # NULL

\* C18: when the step-4 candidate payload does not parse into a list, the
\* run goes on to the record insert with an empty checklist; a run with an
\* empty checklist that saves its record goes straight to the end, where
\* it sets the descriptor Finish and no checklist row of the record is
\* stored.
C18_UnparsedChecklistIsEmpty ==
    [][\A r \in Runs :
         /\ (ChecklistArrives(r) /\ ~IsChecklist(run'[r].checkpoints_json))
              => (run'[r].pc = "persist" /\ run'[r].checkpoints_list = << >>)
         /\ (run[r].pc = "persist" /\ run[r].checkpoints_list = << >>
               /\ run'[r].outcome = "saved")
              => /\ run'[r].pc = "finish"
                 /\ \E row \in db'.analysis : row.id = run'[r].datasheet_id
                 /\ CheckpointsOf(db', run'[r].datasheet_id) = {}
         /\ (run[r].pc = "finish" /\ run[r].checkpoints_list = << >>)
              => /\ run'[r].pc \in {"finish", "done"}
                 /\ CheckpointsOf(db', run[r].datasheet_id) = {}
                 /\ (run'[r].pc = "done" /\ InList(datasheets', run[r].d))
                      => info'[run[r].d].status = "Finish"]_vars

C18_Witness ==
    \E r \in Runs :
      /\ run[r].pc = "persist"
      /\ run[r].checkpoints_json = ChecklistProse
      /\ run[r].checkpoints_list = << >>
      /\ \E o \in ObjIds : info[o].status = "Finish" /\ db.checkpoint = {}


\* C19: a table refresh caused by a file-system event runs on the GUI
\* thread, never on the thread that delivered the event.
C19_RefreshOnGuiThread ==
    ret.op \in {"created", "deleted", "renamed"} => ret.refreshed_on \in {"none", GuiThread}


\* C20: after insert_analysis has stored a dictionary with a record,
\* get_metadata of the record returns every entry as it was given: a list
\* as an equal list, a str as the same str.
C20_MetadataRoundTrip ==
    (ret.op = "insert_analysis" /\ ret.raised = "none")
      => \A e \in ret.metadata : e \in GetMetadata(db, ret.id)


\* the record of the filename that was inserted last: ids are handed out
\* in the order of the inserts
LastInserted(d, filename) ==
    { r \in d.analysis :
        /\ r.filename = filename
        /\ \A o \in d.analysis : o.filename = filename => o.id <= r.id }

\* C21: get_analysis_by_filename returns None exactly when no record of the
\* filename is stored, and otherwise the record of the filename that was
\* inserted last.
C21_LatestByFilename ==
    \A f \in Filenames :
      /\ (GetAnalysisByFilename(db, f) = {}) <=> (\A r \in db.analysis : r.filename # f)
      /\ GetAnalysisByFilename(db, f) \subseteq LastInserted(db, f)


\* C26: no two descriptors of the list have the same filename.
C26_DistinctFilenames ==
    \A i, j \in 1 .. Len(datasheets) :
      i # j => info[datasheets[i]].filename # info[datasheets[j]].filename

\* C30: every descriptor of the list names a file with a recognized
\* extension.
C30_RecognizedExtensions ==
    \A i \in 1 .. Len(datasheets) : Ext(info[datasheets[i]].filename) \in RecognizedExts


\* the files a scan found in its listing that are datasheets
ScannedFiles(listing) ==
    { listing[i] : i \in { k \in 1 .. Len(listing) :
                           IsFile(listing[k]) /\ Ext(listing[k]) \in RecognizedExts } }

\* C22: after a scan every file of the folder with a recognized extension
\* has exactly one descriptor, and every descriptor is Finish if the store
\* holds a record of its filename and Ready otherwise (never Processing).
C22_ScanBuildsDescriptors ==
    [][ret'.op = "load_datasheets" =>
         /\ \A n \in ScannedFiles(ret'.listing) :
              Cardinality({ i \in 1 .. Len(datasheets') :
                              info'[datasheets'[i]].filename = n }) = 1
         /\ \A i \in 1 .. Len(datasheets') :
              info'[datasheets'[i]].status =
                IF \E row \in db'.analysis : row.filename = info'[datasheets'[i]].filename
                THEN "Finish" ELSE "Ready"]_vars

C22_Witness ==
    /\ ret.op = "load_datasheets"
    /\ { ret.listing[k] : k \in 1 .. Len(ret.listing) } = {"a.pdf", "b.png", "n.txt", ScanDir}
    /\ \E i, j \in 1 .. Len(datasheets) :
         /\ info[datasheets[i]] = [filename |-> "a.pdf", status |-> "Finish"]
         /\ info[datasheets[j]].status = "Ready"


\* the metadata rows a call of update_analysis was given keys for
Supplied(call, m) ==
    m.datasheet_id = call.id /\ m.key \in { e.key : e \in call.metadata }

\* C23: a call of update_analysis that sqlite answers leaves every other
\* record as it is, keeps the filename, hash and creation time of the record
\* with the id, sets its text and vendor code to the values given and keeps
\* the ones omitted, leaves every metadata row it was given no key for as it
\* is, and leaves exactly one row, with the value given, for every key it
\* was given.
C23_UpdateTouchesSupplied ==
    [][(ret'.op = "update_analysis" /\ ret'.raised = "none") =>
         /\ { r.id : r \in db'.analysis } = { r.id : r \in db.analysis }
         /\ \A r \in db.analysis : r.id # ret'.id => r \in db'.analysis
         /\ \A r \in db.analysis : r.id = ret'.id =>
              [r EXCEPT !.analysis_result =
                          IF ret'.analysis_result = NULL THEN @ ELSE ret'.analysis_result,
                        !.vendor_code =
                          IF ret'.vendor_code = NULL THEN @ ELSE ret'.vendor_code]
                \in db'.analysis
         /\ Cardinality(db'.analysis) = Cardinality(db.analysis)
         /\ { m \in db'.metadata : ~Supplied(ret', m) }
              = { m \in db.metadata : ~Supplied(ret', m) }
         /\ { m \in db'.metadata : Supplied(ret', m) }
              = MetadataRows(ret'.id, ret'.metadata)
         /\ db'.checkpoint = db.checkpoint]_vars

C23_Witness ==
    /\ ret.op = "update_analysis" /\ ret.raised = "none"
    /\ ret.analysis_result = NULL /\ ret.vendor_code = "TPS54" /\ ret.metadata # {}
    /\ Cardinality(db.analysis) = MaxRecords
    /\ \E r \in db.analysis :
         r.id = ret.id /\ r.analysis_result = "report" /\ r.vendor_code = "TPS54"
    /\ \E m \in db.metadata : m.datasheet_id = ret.id /\ m.key = "Vin" /\ m.value = "3V3"
    /\ \E m \in db.metadata : m.datasheet_id # ret.id /\ m.key = "Vin" /\ m.value = "5V"


\* C24: at the step in which a run sets its descriptor Finish the store
\* holds a record of the descriptor's filename.
C24_FinishHasRecord ==
    [][\A r \in Runs :
         (run[r].pc = "finish" /\ run'[r].pc = "done")
           => \E row \in db'.analysis : row.filename = info[run[r].d].filename]_vars


\* C25: the code a run is about to persist for checklist item idx is the
\* content the tool wrote in the invocation for that item of that run (the
\* empty artifact is persisted by the fallback step, not by this one).
C25_ArtifactOfItsInvocation ==
    \A r \in Runs :
      run[r].pc = "save" => run[r].python_code = Code(r, run[r].idx)


\* two runs at work on the same filename
SameFile(r, o) ==
    /\ r # o
    /\ run[r].d # NoObj /\ run[o].d # NoObj
    /\ info[run[r].d].filename = info[run[o].d].filename

\* the record a run has inserted, while it is stored
RecordOf(o) == { row \in db.analysis : run[o].outcome = "saved" /\ row.id = run[o].datasheet_id }

C28_DuplicateOnlyForPair ==
    [][(ret'.op = "insert_analysis" /\ ret'.raised = "ValueError")
         => HasPair(db, ret'.filename, ret'.file_hash)]_vars


\* C29: the metadata a run builds from a step-3 answer holds a tag entry
\* (a name with its description) or the answer itself under 'tags_raw',
\* and the metadata is stored with the record.
C29_TagsNeverDiscarded ==
    [][\A r \in Runs :
         /\ TagsArrive(r)
              => \/ \E e \in run'[r].metadata : e.key # "tags_raw"
                 \/ RawKept(r)
         /\ MetadataSaved(r)]_vars

====
